---- MODULE Spec2Model ----
(***************************************************************************)
(* Model of the ML new-job-capabilities field service                      *)
(* (x-pack/legacy/plugins/ml/server/models/job_service/new_job_caps/       *)
(* field_service.ts): FieldsService.getData and the pure helpers it calls. *)
(*                                                                         *)
(* JavaScript values are modelled as follows.                              *)
(*  - An object that may be null/undefined is a record with a "kind" tag.  *)
(*  - An array is a sequence.  Fields and aggregations reference each      *)
(*    other (field.aggs holds aggregation objects, agg.fields holds field  *)
(*    objects); a reference is modelled by the referenced object's id.     *)
(*  - An index pattern is a comma separated list of index names, modelled  *)
(*    as the sequence of the names; join(',') is concatenation.            *)
(*  - Arrays that the code shares by reference are kept in one place and   *)
(*    addressed by a reference: the aggregation catalogs live in `heap`    *)
(*    (reference 0 is the module-level template `aggregations`), and the   *)
(*    merged rollup map addresses the job definition that owns each list.  *)
(***************************************************************************)
EXTENDS Integers, Sequences, FiniteSets, TLC

(***************************************************************************)
(* Bounds of the model.                                                    *)
(***************************************************************************)
NumInv == 2            \* getData invocations in ConcSpec
MaxJobs == 2           \* rollup job definitions in one lookup answer
MaxReportFields == 2   \* field names in one capability report

(***************************************************************************)
(* Constants of the program.                                               *)
(***************************************************************************)
Undefined == "undefined"

METRIC_AGG_TYPE == "metrics"
BUCKET_AGG_TYPE == "buckets"

ES_AGGREGATION_COUNT == "count"
ES_AGGREGATION_CARDINALITY == "cardinality"

supportedTypes ==
  << "date", "keyword", "text", "double", "integer", "float", "long",
     "byte", "half_float", "scaled_float", "short" >>

\* Array.prototype.includes
includes(arr, x) == \E k \in DOMAIN arr : arr[k] = x

(***************************************************************************)
(* The aggregation catalog `aggregations` (./aggregations).  An entry      *)
(* carries its DSL name, its category and, optionally, a field list that   *)
(* starts empty.                                                           *)
(***************************************************************************)
Agg(id, dslName, type, hasFields) ==
  [id |-> id, dslName |-> dslName, type |-> type,
   hasFields |-> hasFields, fields |-> << >>]

CatalogA ==
  << Agg("mean", "avg", METRIC_AGG_TYPE, TRUE),
     Agg("distinct_count", ES_AGGREGATION_CARDINALITY, METRIC_AGG_TYPE, TRUE),
     Agg("count", ES_AGGREGATION_COUNT, METRIC_AGG_TYPE, TRUE) >>

CatalogB ==
  << Agg("count", ES_AGGREGATION_COUNT, METRIC_AGG_TYPE, FALSE),
     Agg("terms", "terms", BUCKET_AGG_TYPE, TRUE),
     Agg("max", "max", METRIC_AGG_TYPE, TRUE),
     Agg("distinct_count", ES_AGGREGATION_CARDINALITY, METRIC_AGG_TYPE, TRUE) >>

Catalogs == {CatalogA, CatalogB}

(***************************************************************************)
(* String.prototype.localeCompare on the field identifiers of the model.   *)
(* Locale order ignores case at the first level: "age" < "Bytes" < "name". *)
(***************************************************************************)
FieldIds == {"age", "Bytes", "name"}

LocaleRank(id) == CASE id = "age" -> 1 [] id = "Bytes" -> 2 [] id = "name" -> 3

localeCompare(a, b) ==
  IF LocaleRank(a) < LocaleRank(b) THEN -1
  ELSE IF LocaleRank(a) > LocaleRank(b) THEN 1 ELSE 0

(***************************************************************************)
(* Array.prototype.sort((a, b) => a.id.localeCompare(b.id)), a stable      *)
(* sort, computed as an insertion sort.                                    *)
(***************************************************************************)
RECURSIVE insertSorted(_, _)
insertSorted(sorted, f) ==
  IF sorted = << >> THEN << f >>
  ELSE IF localeCompare(sorted[Len(sorted)].id, f.id) <= 0
       THEN Append(sorted, f)
       ELSE Append(insertSorted(SubSeq(sorted, 1, Len(sorted) - 1), f),
                   sorted[Len(sorted)])

RECURSIVE sortByIdFrom(_, _, _)
sortByIdFrom(fields, k, acc) ==
  IF k > Len(fields) THEN acc
  ELSE sortByIdFrom(fields, k + 1, insertSorted(acc, fields[k]))

sortUnsorted(fields) == fields

sortById(fields) == sortByIdFrom(fields, 1, << >>)

(***************************************************************************)
(* createFields, after the fieldCaps answer has arrived.  `fieldCaps` is   *)
(* [hasFields, fields]: fields is the sequence of <<k, fc>> entries in     *)
(* Object.keys order; fc is the sequence of the type variants' descriptors *)
(* [type, aggregatable] in key order, type being Undefined when missing.   *)
(***************************************************************************)
isSupported(fc) ==
  /\ Len(fc) > 0                               \* firstKey !== undefined
  /\ includes(supportedTypes, fc[1].type)      \* fc[firstKey].type

RECURSIVE pushFieldsLastVariant(_, _, _)
pushFieldsLastVariant(entries, k, fields) ==
  IF k > Len(entries) THEN fields
  ELSE LET fc == entries[k].fc IN
       pushFieldsLastVariant(entries, k + 1,
         IF Len(fc) > 0 /\ includes(supportedTypes, fc[Len(fc)].type)
         THEN Append(fields,
                [id |-> entries[k].k, name |-> entries[k].k,
                 type |-> fc[Len(fc)].type,
                 aggregatable |-> fc[Len(fc)].aggregatable,
                 aggs |-> << >>])
         ELSE fields)

RECURSIVE pushFields(_, _, _)
pushFields(entries, k, fields) ==
  IF k > Len(entries) THEN fields
  ELSE LET fc == entries[k].fc IN
       pushFields(entries, k + 1,
         IF isSupported(fc)
         THEN Append(fields,
                [id |-> entries[k].k, name |-> entries[k].k,
                 type |-> fc[1].type, aggregatable |-> fc[1].aggregatable,
                 aggs |-> << >>])
         ELSE fields)

createFields(fieldCaps) ==
  sortById(IF fieldCaps.hasFields
           THEN pushFields(fieldCaps.fields, 1, << >>)
           ELSE << >>)

(***************************************************************************)
(* getTextAndKeywordFields / getNumericalFields: Array.prototype.filter    *)
(* keeps the field objects themselves, so the filtered lists are modelled  *)
(* as the sequences of the positions of the kept fields in `fields`.       *)
(***************************************************************************)
RECURSIVE positionsWhere(_, _, _)
positionsWhere(fields, types, k) ==
  IF k > Len(fields) THEN << >>
  ELSE (IF fields[k].type \in types THEN << k >> ELSE << >>)
       \o positionsWhere(fields, types, k + 1)

getTextAndKeywordFields(fields) ==
  positionsWhere(fields, {"keyword", "text"}, 1)

getNumericalFieldsNoFloat(fields) ==
  positionsWhere(fields, {"double", "long"}, 1)

getNumericalFields(fields) ==
  positionsWhere(fields, {"double", "float", "long"}, 1)

(***************************************************************************)
(* Array.prototype.find(f => f.agg === name) over a rollup aggregation     *)
(* list: the element found, or undefined.  It never yields null.           *)
(***************************************************************************)
JsNull == [kind |-> "null", agg |-> ""]

JsUndefined == [kind |-> "undefined", agg |-> ""]

find(aggList, name) ==
  IF \E k \in DOMAIN aggList : aggList[k].agg = name
  THEN [kind |-> "object", agg |-> name]
  ELSE JsUndefined

\* JavaScript truthiness of a find result
truthy(v) == v.kind = "object"

(***************************************************************************)
(* mixFactory: the closure environment of the returned mix function.       *)
(* rollupFields is the merged map, a function from field names to          *)
(* sequences of [agg |-> name].                                            *)
(***************************************************************************)
mixFactory(rollupFields) ==
  [isRollup |-> Cardinality(DOMAIN rollupFields) > 0,
   rollupFields |-> rollupFields]

(***************************************************************************)
(* mix(field, agg) on the pair of arrays st = [fields, aggs]: field is     *)
(* st.fields[fi], agg is st.aggs[ai].  Fields built by createFields always *)
(* have an aggs list; an aggregation has a fields list only if the catalog *)
(* gives it one.                                                           *)
(***************************************************************************)
mixAllowed(env, field, agg) ==
  \/ env.isRollup = FALSE
  \/ /\ field.id \in DOMAIN env.rollupFields
     /\ truthy(find(env.rollupFields[field.id], agg.dslName))

mixOneSided(env, st, fi, ai) ==
  [fields |-> IF mixAllowed(env, st.fields[fi], st.aggs[ai])
              THEN [st.fields EXCEPT ![fi].aggs = Append(@, st.aggs[ai].id)]
              ELSE st.fields,
   aggs |-> IF st.aggs[ai].hasFields
            THEN [st.aggs EXCEPT ![ai].fields = Append(@, st.fields[fi].id)]
            ELSE st.aggs]

mix(env, st, fi, ai) ==
  IF mixAllowed(env, st.fields[fi], st.aggs[ai])
  THEN [fields |-> [st.fields EXCEPT ![fi].aggs = Append(@, st.aggs[ai].id)],
        aggs |-> IF st.aggs[ai].hasFields
                 THEN [st.aggs EXCEPT ![ai].fields = Append(@, st.fields[fi].id)]
                 ELSE st.aggs]
  ELSE st

\* positions.forEach(f => mix(f, a))
RECURSIVE mixEach(_, _, _, _, _)
mixEach(env, st, positions, k, ai) ==
  IF k > Len(positions) THEN st
  ELSE mixEach(env, mix(env, st, positions[k], ai), positions, k + 1, ai)

(***************************************************************************)
(* The body of aggs.forEach in combineFieldsAndAggs: the fields the        *)
(* aggregation `a` is offered to, in order.                                *)
(***************************************************************************)
linkTargetsNoCountCase(a, textAndKeywordFields, numericalFields) ==
  IF a.type = METRIC_AGG_TYPE
  THEN IF a.dslName = ES_AGGREGATION_CARDINALITY
       THEN textAndKeywordFields \o numericalFields
       ELSE numericalFields
  ELSE << >>

linkTargetsTextEverywhere(a, textAndKeywordFields, numericalFields) ==
  IF a.type = METRIC_AGG_TYPE
  THEN IF a.dslName = ES_AGGREGATION_COUNT
       THEN << >>
       ELSE textAndKeywordFields \o numericalFields
  ELSE << >>

linkTargets(a, textAndKeywordFields, numericalFields) ==
  IF a.type = METRIC_AGG_TYPE
  THEN CASE a.dslName = ES_AGGREGATION_CARDINALITY ->
              textAndKeywordFields \o numericalFields
         [] a.dslName = ES_AGGREGATION_COUNT -> << >>
         [] OTHER -> numericalFields
  ELSE << >>

RECURSIVE forEachAgg(_, _, _, _, _)
forEachAgg(env, st, textAndKeywordFields, numericalFields, ai) ==
  IF ai > Len(st.aggs) THEN st
  ELSE forEachAgg(env,
         mixEach(env, st,
                 linkTargets(st.aggs[ai], textAndKeywordFields, numericalFields),
                 1, ai),
         textAndKeywordFields, numericalFields, ai + 1)

\* remove fields that have no aggs associated to them
filterFieldsKeepAll(fields) == fields

filterFields(fields) == SelectSeq(fields, LAMBDA f : Len(f.aggs) > 0)

\* remove aggs that have no fields associated to them
filterAggs(aggs) == SelectSeq(aggs, LAMBDA a : a.hasFields /\ Len(a.fields) > 0)

(***************************************************************************)
(* combineFieldsAndAggs.  It mutates the elements of the `aggs` array it   *)
(* is given; `aggsAfter` is that array when the function returns.          *)
(***************************************************************************)
combineFieldsAndAggs(fields, aggs, rollupFields) ==
  LET st == forEachAgg(mixFactory(rollupFields),
                       [fields |-> fields, aggs |-> aggs],
                       getTextAndKeywordFields(fields),
                       getNumericalFields(fields), 1)
  IN [caps |-> [aggs |-> filterAggs(st.aggs), fields |-> filterFields(st.fields)],
      aggsAfter |-> st.aggs]

(***************************************************************************)
(* combineAllRollupFields.  A job definition is [index_pattern, fields],   *)
(* fields being a function from field names to sequences of [agg |-> n].   *)
(* `rollupFields[fieldName] = conf.fields[fieldName]` stores the job's own *)
(* array, so a later push would change that job definition too: the merged *)
(* map is kept as owner[fieldName], the position of the job whose array it *)
(* holds, and the arrays stay in `configs`.                                *)
(* Object.keys(conf.fields) is walked in a fixed order; the handling of    *)
(* one field name does not read the state of another.                      *)
(***************************************************************************)
RECURSIVE keysOf(_)
keysOf(names) ==
  IF names = {} THEN << >>
  ELSE LET n == CHOOSE x \in names : \A y \in names : LocaleRank(x) <= LocaleRank(y)
       IN << n >> \o keysOf(names \ {n})

\* the test `rollupFields[fieldName].find(f => f.agg === agg.agg) === null`
aggIsMissingFixed(aggList, agg) == find(aggList, agg.agg) = JsUndefined

aggIsMissing(aggList, agg) == find(aggList, agg.agg) = JsNull

\* aggs.forEach(agg => ...) for the job at position j, field name n
RECURSIVE mergeAggs(_, _, _, _, _)
mergeAggs(configs, owner, j, n, k) ==
  IF k > Len(configs[j].fields[n]) THEN configs
  ELSE LET agg == configs[j].fields[n][k] IN
       mergeAggs(
         IF aggIsMissing(configs[owner].fields[n], agg)
         THEN [configs EXCEPT ![owner].fields[n] = Append(@, agg)]
         ELSE configs,
         owner, j, n, k + 1)

\* Object.keys(conf.fields).forEach(fieldName => ...) for the job at position j
RECURSIVE mergeFieldNames(_, _, _, _)
mergeFieldNames(m, j, names, k) ==
  IF k > Len(names) THEN m
  ELSE LET n == names[k] IN
       mergeFieldNames(
         IF n \notin DOMAIN m.owner
         THEN [m EXCEPT !.owner = (n :> j) @@ @]
         ELSE [m EXCEPT !.configs = mergeAggs(@, m.owner[n], j, n, 1)],
         j, names, k + 1)

\* rollupConfigs.forEach(conf => ...)
RECURSIVE mergeConfigs(_, _)
mergeConfigs(m, j) ==
  IF j > Len(m.configs) THEN m
  ELSE mergeConfigs(
         mergeFieldNames(m, j, keysOf(DOMAIN m.configs[j].fields), 1), j + 1)

combineAllRollupFields(rollupConfigs) ==
  LET m == mergeConfigs([configs |-> rollupConfigs, owner |-> << >>], 1)
  IN [rollupFields |-> [n \in DOMAIN m.owner |-> m.configs[m.owner[n]].fields[n]],
      rollupConfigs |-> m.configs]

(***************************************************************************)
(* The rollup service (./rollup).  getRollupJobs answers null or a list of *)
(* job definitions; getIndexPattern is the comma-joined list of the jobs'  *)
(* index patterns.                                                         *)
(***************************************************************************)
RECURSIVE getIndexPattern(_)
getIndexPattern(jobs) ==
  IF jobs = << >> THEN << >>
  ELSE jobs[1].index_pattern \o getIndexPattern(Tail(jobs))

(***************************************************************************)
(* lodash cloneDeep of the catalog held at heap[src], for invocation i: a  *)
(* new array with new elements, held at the invocation's own reference.    *)
(***************************************************************************)
cloneShared(h, src, i) == [ref |-> src, heap |-> h]

cloneDeep(h, src, i) == [ref |-> i, heap |-> [h EXCEPT ![i] = h[src]]]

(***************************************************************************)
(* Answers of the collaborators.                                           *)
(***************************************************************************)
SeqsUpTo(S, lo, hi) == UNION {[1..m -> S] : m \in lo..hi}

RollupAgg(n) == [agg |-> n]

JobFieldMaps ==
  { << >>,
    "age" :> << RollupAgg("avg") >>,
    "age" :> << RollupAgg("max") >>,
    "age" :> << RollupAgg("cardinality") >>,
    "name" :> << RollupAgg("cardinality") >>,
    ("age" :> << RollupAgg("avg"), RollupAgg("cardinality") >>)
      @@ ("name" :> << RollupAgg("cardinality") >>) }

Jobs ==
  {[index_pattern |-> IF DOMAIN fm = {} THEN << "r2" >> ELSE << "r1" >>,
    fields |-> fm] : fm \in JobFieldMaps}

NoJobs == [kind |-> "null", jobs |-> << >>]

NoAnswer == [kind |-> "none", jobs |-> << >>]

RollupAnswers ==
  {NoJobs} \cup {[kind |-> "jobs", jobs |-> js] : js \in SeqsUpTo(Jobs, 1, MaxJobs)}

Descriptor(t) == [type |-> t, aggregatable |-> t # "text"]

\* the type variants reported for each field name, in key order
VariantLists(id) ==
  CASE id = "age" ->
         { << Descriptor("long") >>, << Descriptor("double") >>,
           << Descriptor("float") >>, << Descriptor("integer") >>,
           << Descriptor("boolean"), Descriptor("long") >> }
    [] id = "name" ->
         { << >>, << Descriptor("keyword") >>, << Descriptor("text") >>,
           << Descriptor(Undefined) >>,
           << Descriptor("keyword"), Descriptor("boolean") >> }
    [] id = "Bytes" ->
         { << Descriptor("long") >>, << Descriptor("date") >>,
           << Descriptor("boolean") >>, << Descriptor("keyword") >> }

ReportEntries == {e \in [k : FieldIds, fc : UNION {VariantLists(id) : id \in FieldIds}] :
                    e.fc \in VariantLists(e.k)}

NoReport == [kind |-> "none", hasFields |-> FALSE, fields |-> << >>]

Reports ==
  {[kind |-> "report", hasFields |-> FALSE, fields |-> << >>]} \cup
  {[kind |-> "report", hasFields |-> TRUE, fields |-> es] :
     es \in {e \in SeqsUpTo(ReportEntries, 0, MaxReportFields) :
               \A a, b \in DOMAIN e : a # b => e[a].k # e[b].k}}

(***************************************************************************)
(* State.                                                                  *)
(*  heap     the aggregation catalogs: heap[0] is the module-level         *)
(*           `aggregations`, heap[i] the copy made by invocation i         *)
(*  service  the FieldsService objects: _indexPattern, _isRollup           *)
(*  inv      the getData invocations: where each is suspended, its local   *)
(*           variables, the external calls it has issued and the answers   *)
(*           it has received                                               *)
(***************************************************************************)
VARIABLES heap, service, inv

vars == << heap, service, inv >>

Invs == 1..NumInv

Refs == 0..NumInv

Svcs == {1, 2}

OriginalPattern == << "logs-*" >>

EmptyCaps == [aggs |-> << >>, fields |-> << >>]

Idle ==
  [pc |-> "idle", svc |-> 0, startPattern |-> << >>, calls |-> << >>,
   answer |-> NoAnswer, rollupConfigs |-> << >>, rollupFields |-> << >>,
   aggsRef |-> 0, fieldCaps |-> NoReport, caps |-> EmptyCaps]

\* fieldServiceProvider / the FieldsService constructor: service 1 is built
\* for a rollup index pattern, service 2 for an ordinary one
Init ==
  /\ \E catalog \in Catalogs :
       heap = [r \in Refs |-> IF r = 0 THEN catalog ELSE << >>]
  /\ service = [s \in Svcs |->
                  [_indexPattern |-> OriginalPattern, _isRollup |-> (s = 1)]]
  /\ inv = [i \in Invs |-> Idle]

loadFieldCapsOriginal(svc) == [op |-> "fieldCaps", index |-> OriginalPattern]

\* loadFieldCaps: callWithRequest('fieldCaps', {index: this._indexPattern, ...})
loadFieldCaps(svc) == [op |-> "fieldCaps", index |-> svc._indexPattern]

\* rollupServiceProvider(this._indexPattern, ...) and getRollupJobs()
loadRollupJobs(svc) == [op |-> "rollupJobs", index |-> svc._indexPattern]

(***************************************************************************)
(* getData is called on service s and runs to its first await: the rollup  *)
(* lookup in rollup mode, otherwise the fieldCaps call that createFields   *)
(* issues right after the catalog has been cloned.                         *)
(***************************************************************************)
GetData(i, s) ==
  /\ inv[i].pc = "idle"
  /\ UNCHANGED service
  /\ IF service[s]._isRollup
     THEN /\ inv' = [inv EXCEPT ![i] =
                       [@ EXCEPT !.pc = "awaitRollup", !.svc = s,
                                 !.startPattern = service[s]._indexPattern,
                                 !.calls = << loadRollupJobs(service[s]) >>]]
          /\ UNCHANGED heap
     ELSE LET c == cloneDeep(heap, 0, i) IN
          /\ heap' = c.heap
          /\ inv' = [inv EXCEPT ![i] =
                       [@ EXCEPT !.pc = "awaitCaps", !.svc = s,
                                 !.startPattern = service[s]._indexPattern,
                                 !.aggsRef = c.ref,
                                 !.calls = << loadFieldCaps(service[s]) >>]]

(***************************************************************************)
(* The rollup lookup answers.  null: getData returns the empty result.     *)
(* Otherwise the job definitions are merged, the service's index pattern   *)
(* is replaced, the catalog is cloned and createFields issues fieldCaps.   *)
(***************************************************************************)
hasNoRollupConfigsLoose(rollupConfigs) == rollupConfigs.kind = "undefined"

\* rollupConfigs === null
hasNoRollupConfigs(rollupConfigs) == rollupConfigs.kind = "null"

RollupJobsReturn(i, answer) ==
  /\ inv[i].pc = "awaitRollup"
  /\ IF hasNoRollupConfigs(answer)
     THEN /\ inv' = [inv EXCEPT ![i] =
                       [@ EXCEPT !.pc = "done", !.answer = answer,
                                 !.caps = EmptyCaps]]
          /\ UNCHANGED << heap, service >>
     ELSE LET m == combineAllRollupFields(answer.jobs)
              svc == [service[inv[i].svc] EXCEPT
                        !._indexPattern = getIndexPattern(answer.jobs)]
              c == cloneDeep(heap, 0, i)
          IN /\ service' = [service EXCEPT ![inv[i].svc] = svc]
             /\ heap' = c.heap
             /\ inv' = [inv EXCEPT ![i] =
                          [@ EXCEPT !.pc = "awaitCaps", !.answer = answer,
                                    !.rollupConfigs = m.rollupConfigs,
                                    !.rollupFields = m.rollupFields,
                                    !.aggsRef = c.ref,
                                    !.calls = Append(@, loadFieldCaps(svc))]]

\* the rollup lookup fails: the rejection propagates to the caller
RollupJobsFail(i) ==
  /\ inv[i].pc = "awaitRollup"
  /\ inv' = [inv EXCEPT ![i].pc = "failed"]
  /\ UNCHANGED << heap, service >>

(***************************************************************************)
(* The fieldCaps call answers: createFields builds and sorts the fields,   *)
(* combineFieldsAndAggs links them with the invocation's catalog and       *)
(* getData returns.                                                        *)
(***************************************************************************)
FieldCapsReturn(i, fieldCaps) ==
  /\ inv[i].pc = "awaitCaps"
  /\ LET fields == createFields(fieldCaps)
         r == combineFieldsAndAggs(fields, heap[inv[i].aggsRef], inv[i].rollupFields)
     IN /\ heap' = [heap EXCEPT ![inv[i].aggsRef] = r.aggsAfter]
        /\ inv' = [inv EXCEPT ![i] =
                     [@ EXCEPT !.pc = "done", !.fieldCaps = fieldCaps,
                               !.caps = r.caps]]
  /\ UNCHANGED service

\* the fieldCaps call fails: the rejection propagates to the caller
FieldCapsFail(i) ==
  /\ inv[i].pc = "awaitCaps"
  /\ inv' = [inv EXCEPT ![i].pc = "failed"]
  /\ UNCHANGED << heap, service >>

(***************************************************************************)
(* Spec: one getData invocation on a freshly constructed service, with     *)
(* every answer of the collaborators.                                      *)
(***************************************************************************)
Next ==
  \/ \E s \in Svcs : GetData(1, s)
  \/ \E answer \in RollupAnswers : RollupJobsReturn(1, answer)
  \/ RollupJobsFail(1)
  \/ \E fieldCaps \in Reports : FieldCapsReturn(1, fieldCaps)
  \/ FieldCapsFail(1)

Spec == Init /\ [][Next]_vars

(***************************************************************************)
(* ConcSpec: NumInv getData invocations, each on either service, started   *)
(* at any time: one after another on the same service, or interleaved at   *)
(* the two awaits.                                                         *)
(***************************************************************************)
JobWith(fm) == [index_pattern |-> << "r1" >>, fields |-> fm]

ConcAnswers ==
  { NoJobs,
    [kind |-> "jobs", jobs |-> << JobWith("age" :> << RollupAgg("avg") >>) >>],
    [kind |-> "jobs",
     jobs |-> << JobWith("age" :> << RollupAgg("avg") >>),
                 JobWith(("age" :> << RollupAgg("cardinality") >>)
                           @@ ("name" :> << RollupAgg("cardinality") >>)) >>] }

ConcReports ==
  { [kind |-> "report", hasFields |-> TRUE,
     fields |-> << [k |-> "name", fc |-> << Descriptor("keyword") >>],
                   [k |-> "age", fc |-> << Descriptor("long") >>] >>],
    [kind |-> "report", hasFields |-> TRUE,
     fields |-> << [k |-> "Bytes", fc |-> << Descriptor("date") >>],
                   [k |-> "age", fc |-> << Descriptor("double") >>] >>] }

ConcNext ==
  \E i \in Invs :
    \/ \E s \in Svcs : GetData(i, s)
    \/ \E answer \in ConcAnswers : RollupJobsReturn(i, answer)
    \/ RollupJobsFail(i)
    \/ \E fieldCaps \in ConcReports : FieldCapsReturn(i, fieldCaps)
    \/ FieldCapsFail(i)

ConcSpec == Init /\ [][ConcNext]_vars

(***************************************************************************)
(* Vocabulary of the properties.                                           *)
(***************************************************************************)
Range(seq) == {seq[k] : k \in DOMAIN seq}

Done(i) == inv[i].pc = "done"

IsRollupCall(i) == inv[i].svc = 1

SupportedTypeSet == Range(supportedTypes)

\* the DSL name of the catalog entry with this id
DslNameOf(aggId) ==
  LET a == CHOOSE a \in UNION {Range(c) : c \in Catalogs} : a.id = aggId
  IN a.dslName

FieldIdsOf(fields) == {fields[k].id : k \in DOMAIN fields}

\* the field/aggregation pairs <<field id, DSL name>> of a result, as the
\* fields list them and as the aggregations list them
FieldPairs(caps) ==
  UNION {{<< f.id, DslNameOf(a) >> : a \in Range(f.aggs)} : f \in Range(caps.fields)}

AggPairs(caps) ==
  UNION {{<< fid, a.dslName >> : fid \in Range(a.fields)} : a \in Range(caps.aggs)}

\* the entries of a capability report that createFields must keep
KeptEntries(fieldCaps) ==
  {e \in Range(fieldCaps.fields) :
     Len(e.fc) > 0 /\ e.fc[1].type \in SupportedTypeSet}

(***************************************************************************)
(* C1: in every result of getData, every returned field has at least one   *)
(* aggregation in its aggs list and every returned aggregation has at      *)
(* least one field in its fields list.                                     *)
(***************************************************************************)
C1_MutuallyFiltered ==
  \A i \in Invs : Done(i) =>
    /\ \A f \in Range(inv[i].caps.fields) : Len(f.aggs) >= 1
    /\ \A a \in Range(inv[i].caps.aggs) : a.hasFields /\ Len(a.fields) >= 1

\* a result with linked fields from which a supported field of the report
\* and an aggregation of the catalog were filtered out
C1_Witness ==
  \E i \in Invs :
    /\ Done(i)
    /\ inv[i].caps.fields # << >>
    /\ inv[i].caps.aggs # << >>
    /\ \E e \in KeptEntries(inv[i].fieldCaps) :
         e.k \notin FieldIdsOf(inv[i].caps.fields)
    /\ Len(inv[i].caps.aggs) < Len(heap[0])

(***************************************************************************)
(* C2: in rollup mode with a list of job definitions, a field/aggregation  *)
(* pair is in the output only if the merged rollup map has the field name  *)
(* and lists the aggregation's DSL name for it.                            *)
(***************************************************************************)
PermittedByRollup(rollupFields, pair) ==
  /\ pair[1] \in DOMAIN rollupFields
  /\ \E k \in DOMAIN rollupFields[pair[1]] : rollupFields[pair[1]][k].agg = pair[2]

C2_RollupPairsPermitted ==
  \A i \in Invs :
    (Done(i) /\ IsRollupCall(i) /\ inv[i].answer.kind = "jobs") =>
      \A pair \in FieldPairs(inv[i].caps) \cup AggPairs(inv[i].caps) :
        PermittedByRollup(inv[i].rollupFields, pair)

(***************************************************************************)
(* C3: the merged rollup map holds, for every field name, the union of the *)
(* aggregation names any job lists for it, each pair exactly once.         *)
(***************************************************************************)
AggNames(aggList) == {aggList[k].agg : k \in DOMAIN aggList}

C3_MergedIsUnion ==
  \A i \in Invs : inv[i].answer.kind = "jobs" =>
    LET jobs == inv[i].answer.jobs
        merged == inv[i].rollupFields
    IN /\ DOMAIN merged = UNION {DOMAIN jobs[j].fields : j \in DOMAIN jobs}
       /\ \A n \in DOMAIN merged :
            /\ AggNames(merged[n]) =
                 UNION {AggNames(jobs[j].fields[n]) :
                          j \in {j \in DOMAIN jobs : n \in DOMAIN jobs[j].fields}}
            /\ Cardinality(AggNames(merged[n])) = Len(merged[n])

(***************************************************************************)
(* C4: in rollup mode, when the lookup finds no job definitions, getData   *)
(* succeeds with exactly {fields: [], aggs: []} and issues no fieldCaps    *)
(* request.                                                                *)
(***************************************************************************)
C4_NoJobsEmptyResult ==
  \A i \in Invs : (IsRollupCall(i) /\ inv[i].answer.kind = "null") =>
    /\ Done(i)
    /\ inv[i].caps = [fields |-> << >>, aggs |-> << >>]
    /\ \A k \in DOMAIN inv[i].calls : inv[i].calls[k].op # "fieldCaps"
    /\ inv[i].fieldCaps.kind = "none"

C4_Witness ==
  \E i \in Invs : Done(i) /\ IsRollupCall(i) /\ inv[i].answer.kind = "null"

(***************************************************************************)
(* C7: in non-rollup mode the count aggregation is in no returned field's  *)
(* aggregation list and not in the returned aggregation list.              *)
(***************************************************************************)
C7_CountNeverLinked ==
  \A i \in Invs : (Done(i) /\ ~IsRollupCall(i)) =>
    /\ \A pair \in FieldPairs(inv[i].caps) : pair[2] # "count"
    /\ \A a \in Range(inv[i].caps.aggs) : a.dslName # "count"

\* a non-rollup result with linked numeric and keyword/text fields, from a
\* catalog that has the count aggregation
C7_Witness ==
  \E i \in Invs :
    /\ Done(i) /\ ~IsRollupCall(i)
    /\ \E a \in Range(heap[0]) : a.dslName = "count"
    /\ \E f, g \in Range(inv[i].caps.fields) : f.type = "long" /\ g.type = "keyword"

(***************************************************************************)
(* C8: in non-rollup mode every keyword or text field of the capability    *)
(* report is linked to the cardinality aggregation and to no other metric  *)
(* aggregation.                                                            *)
(***************************************************************************)
C8_TextAndKeywordOnlyCardinality ==
  \A i \in Invs : (Done(i) /\ ~IsRollupCall(i)) =>
    \A e \in KeptEntries(inv[i].fieldCaps) :
      e.fc[1].type \in {"keyword", "text"} =>
        /\ \E f \in Range(inv[i].caps.fields) :
             /\ f.id = e.k
             /\ f.type = e.fc[1].type
             /\ \E a \in Range(f.aggs) : DslNameOf(a) = "cardinality"
             /\ \A a \in Range(f.aggs) : DslNameOf(a) = "cardinality"
        /\ \A a \in Range(inv[i].caps.aggs) :
             (e.k \in Range(a.fields)) <=> (a.dslName = "cardinality")

\* a non-rollup result with a text field, a keyword field next to a numeric
\* field, and a metric aggregation other than cardinality linked
C8_Witness ==
  \E i \in Invs :
    /\ Done(i) /\ ~IsRollupCall(i)
    /\ \E f, g \in Range(inv[i].caps.fields) :
         f.type \in {"keyword", "text"} /\ g.type \in {"long", "double", "float"}
    /\ \E a \in Range(inv[i].caps.aggs) : a.dslName \notin {"cardinality", "count"}

(***************************************************************************)
(* C9: every returned field has a supported type; a report entry with no   *)
(* type variant, a missing type or an unsupported type in its first        *)
(* variant is dropped, and getData still succeeds.                         *)
(***************************************************************************)
C9_UnsupportedDropped ==
  \A i \in Invs : inv[i].fieldCaps.kind = "report" =>
    /\ Done(i)
    /\ \A f \in Range(inv[i].caps.fields) : f.type \in SupportedTypeSet
    /\ \A e \in Range(inv[i].fieldCaps.fields) :
         (\/ Len(e.fc) = 0
          \/ e.fc[1].type = Undefined
          \/ e.fc[1].type \notin SupportedTypeSet)
           => e.k \notin FieldIdsOf(inv[i].caps.fields)

\* a result that kept one entry of the report and dropped another whose
\* first variant is unsupported while a later variant is supported
C9_Witness ==
  \E i \in Invs :
    /\ Done(i)
    /\ inv[i].caps.fields # << >>
    /\ \E e \in Range(inv[i].fieldCaps.fields) :
         /\ Len(e.fc) = 2
         /\ e.fc[1].type \notin SupportedTypeSet
         /\ e.fc[2].type \in SupportedTypeSet
         /\ e.k \notin FieldIdsOf(inv[i].caps.fields)

(***************************************************************************)
(* C10: the returned field list is sorted ascending by field id under      *)
(* localeCompare, in rollup and in non-rollup mode.                        *)
(***************************************************************************)
C10_FieldsSorted ==
  \A i \in Invs : Done(i) =>
    \A k \in 1..(Len(inv[i].caps.fields) - 1) :
      LocaleRank(inv[i].caps.fields[k].id) <= LocaleRank(inv[i].caps.fields[k + 1].id)

\* a rollup result with two fields whose report listed them in descending
\* order
C10_Witness ==
  \E i \in Invs :
    /\ Done(i) /\ IsRollupCall(i)
    /\ Len(inv[i].caps.fields) = 2
    /\ Len(inv[i].fieldCaps.fields) = 2
    /\ LocaleRank(inv[i].fieldCaps.fields[1].k) > LocaleRank(inv[i].fieldCaps.fields[2].k)

(***************************************************************************)
(* C5: getData has no side effect beyond the external calls: afterwards    *)
(* the service's index pattern and rollup flag and the job definitions it  *)
(* was given are unchanged, so a second getData on the same service with   *)
(* the same answers issues the same requests and returns the same result.  *)
(***************************************************************************)
SameAnswers(i, j) ==
  /\ inv[i].svc = inv[j].svc
  /\ inv[i].answer = inv[j].answer
  /\ inv[i].fieldCaps = inv[j].fieldCaps

C5_NoSideEffects ==
  \A i \in Invs : Done(i) =>
    /\ service[inv[i].svc]._indexPattern = OriginalPattern
    /\ service[inv[i].svc]._isRollup = IsRollupCall(i)
    /\ inv[i].rollupConfigs = inv[i].answer.jobs
    /\ \A j \in Invs : (Done(j) /\ SameAnswers(i, j)) =>
         /\ inv[j].calls = inv[i].calls
         /\ inv[j].caps = inv[i].caps

(***************************************************************************)
(* C5 as amended: getData leaves the rollup flag and the job definitions   *)
(* unchanged; it leaves the index pattern unchanged in non-rollup mode and *)
(* when the lookup finds no jobs, and otherwise replaces it by the rollup  *)
(* service's resolved pattern.  A second getData on the same service with  *)
(* the same answers returns the same result and issues the same fieldCaps  *)
(* request; its requests are all the same when it started from the same    *)
(* index pattern.                                                          *)
(***************************************************************************)
FieldCapsCalls(i) == SelectSeq(inv[i].calls, LAMBDA c : c.op = "fieldCaps")

C5_SideEffectsAmended ==
  /\ \A s \in Svcs :
       /\ service[s]._isRollup = (s = 1)
       /\ \/ service[s]._indexPattern = OriginalPattern
          \/ /\ service[s]._isRollup
             /\ \E i \in Invs :
                  /\ inv[i].svc = s
                  /\ inv[i].answer.kind = "jobs"
                  /\ service[s]._indexPattern = getIndexPattern(inv[i].answer.jobs)
  /\ \A i \in Invs :
       /\ inv[i].rollupConfigs = inv[i].answer.jobs
       /\ \A j \in Invs : (Done(i) /\ Done(j) /\ SameAnswers(i, j)) =>
            /\ inv[j].caps = inv[i].caps
            /\ FieldCapsCalls(j) = FieldCapsCalls(i)
            /\ inv[j].startPattern = inv[i].startPattern => inv[j].calls = inv[i].calls

\* two completed calls on the rollup service with the same answers, two job
\* definitions among them, the second started after the first replaced the
\* index pattern
C5_Witness ==
  \E i, j \in Invs :
    /\ i # j /\ Done(i) /\ Done(j) /\ SameAnswers(i, j)
    /\ inv[i].answer.kind = "jobs" /\ Len(inv[i].answer.jobs) = 2
    /\ inv[i].startPattern = OriginalPattern
    /\ inv[j].startPattern = getIndexPattern(inv[i].answer.jobs)
    /\ inv[i].caps.fields # << >>

(***************************************************************************)
(* C6: interleaved getData invocations share no mutable state: the         *)
(* catalog template `aggregations` is never mutated, every invocation      *)
(* works on its own copy, and its requests and result are those it         *)
(* produces when run alone from the answers it received.                   *)
(***************************************************************************)
AloneCalls(i) ==
  IF IsRollupCall(i)
  THEN << [op |-> "rollupJobs", index |-> inv[i].startPattern] >>
       \o (IF inv[i].answer.kind = "jobs"
           THEN << [op |-> "fieldCaps", index |-> getIndexPattern(inv[i].answer.jobs)] >>
           ELSE << >>)
  ELSE << [op |-> "fieldCaps", index |-> inv[i].startPattern] >>

AloneCaps(i, catalog) ==
  IF inv[i].fieldCaps.kind = "none" THEN EmptyCaps
  ELSE combineFieldsAndAggs(
         createFields(inv[i].fieldCaps), catalog,
         IF inv[i].answer.kind = "jobs"
         THEN combineAllRollupFields(inv[i].answer.jobs).rollupFields
         ELSE << >>).caps

FieldIdsOfTypes(fieldCaps, types) ==
  {e.k : e \in {e \in KeptEntries(fieldCaps) : e.fc[1].type \in types}}

ExpectedFields(a, fieldCaps) ==
  IF a.type # "metrics" \/ a.dslName = "count" THEN {}
  ELSE IF a.dslName = "cardinality"
       THEN FieldIdsOfTypes(fieldCaps, {"text", "keyword", "double", "float", "long"})
       ELSE FieldIdsOfTypes(fieldCaps, {"double", "float", "long"})

\* the aggregation ids in the aggs list of the field `id` of a result
LinkedAggs(caps, id) ==
  UNION {Range(f.aggs) : f \in {f \in Range(caps.fields) : f.id = id}}

C11_LinkedByType ==
  \A i \in Invs : (Done(i) /\ ~IsRollupCall(i)) =>
    LET linked == heap[inv[i].aggsRef] IN
    /\ \A a \in Range(linked) :
         a.hasFields => Range(a.fields) = ExpectedFields(a, inv[i].fieldCaps)
    /\ \A e \in KeptEntries(inv[i].fieldCaps) :
         LinkedAggs(inv[i].caps, e.k) =
           {a.id : a \in {a \in Range(linked) :
                            e.k \in ExpectedFields(a, inv[i].fieldCaps)}}

\* a non-rollup result from the catalog with a non-metric aggregation, with
\* a float field and a keyword field in the field list
C11_Witness ==
  \E i \in Invs :
    /\ Done(i) /\ ~IsRollupCall(i)
    /\ \E a \in Range(heap[inv[i].aggsRef]) : a.type # "metrics"
    /\ \E f, g \in Range(inv[i].caps.fields) : f.type = "float" /\ g.type = "keyword"
    /\ \E a \in Range(inv[i].caps.aggs) : a.dslName \notin {"cardinality", "count"}

(***************************************************************************)
(* C12: the external calls of one getData happen in sequence.  In rollup   *)
(* mode the rollup lookup is issued first and has answered with job        *)
(* definitions before the one fieldCaps call is issued, and that call is   *)
(* for the rollup service's resolved index pattern; in non-rollup mode     *)
(* exactly one fieldCaps call is issued, for the original index pattern,   *)
(* and no rollup lookup.                                                   *)
(***************************************************************************)
C12_CallsInSequence ==
  \A i \in Invs : inv[i].pc # "idle" =>
    LET calls == inv[i].calls IN
    IF IsRollupCall(i)
    THEN /\ Len(calls) \in {1, 2}
         /\ calls[1] = [op |-> "rollupJobs", index |-> inv[i].startPattern]
         /\ inv[i].pc = "awaitRollup" => Len(calls) = 1
         /\ Len(calls) = 2 <=> inv[i].answer.kind = "jobs"
         /\ Len(calls) = 2 =>
              calls[2] = [op |-> "fieldCaps",
                          index |-> getIndexPattern(inv[i].answer.jobs)]
    ELSE calls = << [op |-> "fieldCaps", index |-> inv[i].startPattern] >>

\* a completed rollup call whose lookup answered two jobs with different
\* index patterns, so that the fieldCaps call went to the joined pattern
C12_Witness ==
  \E i \in Invs :
    /\ Done(i) /\ IsRollupCall(i)
    /\ Len(inv[i].answer.jobs) = 2
    /\ inv[i].answer.jobs[1].index_pattern # inv[i].answer.jobs[2].index_pattern
    /\ Len(inv[i].calls) = 2
    /\ inv[i].calls[2].index # inv[i].startPattern
    /\ inv[i].startPattern = OriginalPattern
    /\ inv[i].caps.fields # << >>

(***************************************************************************)
(* C13: linking is bidirectional and free of duplicates in the result: for *)
(* every returned field f and returned aggregation a, a is in f's list if  *)
(* and only if f is in a's list, and no list holds an entry twice (field   *)
(* ids and the catalog's DSL names being unique).                          *)
(***************************************************************************)
NoDuplicates(seq) == Cardinality(Range(seq)) = Len(seq)

C13_LinksBidirectional ==
  \A i \in Invs : Done(i) =>
    /\ \A f \in Range(inv[i].caps.fields) : \A a \in Range(inv[i].caps.aggs) :
         (a.id \in Range(f.aggs)) <=> (f.id \in Range(a.fields))
    /\ \A f \in Range(inv[i].caps.fields) : NoDuplicates(f.aggs)
    /\ \A a \in Range(inv[i].caps.aggs) : NoDuplicates(a.fields)

\* a rollup result with two fields and two aggregations in which one
\* field/aggregation pair is linked and another is not
C13_Witness ==
  \E i \in Invs :
    /\ Done(i) /\ IsRollupCall(i)
    /\ Len(inv[i].caps.fields) = 2 /\ Len(inv[i].caps.aggs) = 2
    /\ \E f \in Range(inv[i].caps.fields) : \E a \in Range(inv[i].caps.aggs) :
         a.id \notin Range(f.aggs) /\ f.id \notin Range(a.fields)
    /\ \E f \in Range(inv[i].caps.fields) : Len(f.aggs) = 2
    /\ \E a \in Range(inv[i].caps.aggs) : Len(a.fields) = 2

====
